---- MODULE Spec2Model ----
(***************************************************************************)
(* Contract analysis and risk assessment: clause extraction                 *)
(* (utils/nlp_processor.py), rule-based risk classification and aggregate   *)
(* scoring (utils/risk_analyzer.py) and the analysis loop of app.py.        *)
(*                                                                         *)
(* Text representation.  A Python str is modelled as a sequence of PIECES.  *)
(* A piece is a run of characters that the program never looks inside:      *)
(* one whitespace character ("\n" or " "), one digit, one punctuation       *)
(* character, a marker word, a phrase of the rule set, or a run of plain    *)
(* letters of a stated width ("w51" is 51 letters).  The str is the         *)
(* concatenation of its pieces.  The vocabulary is chosen so that a rule    *)
(* phrase occurs in the concatenation exactly when its pieces occur         *)
(* contiguously, and so that no piece other than NL and SP begins or ends   *)
(* with whitespace.                                                        *)
(***************************************************************************)
EXTENDS Integers, Sequences, FiniteSets, TLC

VARIABLES
    contract_text,   \* the text under analysis (st.session_state.contract_text)
    pc,              \* position of the running code
    pattern_idx,     \* index of the clause pattern the for loop of extract_clauses is at
    clauses,         \* value returned by extract_clauses
    breaks,          \* sentence boundaries chosen by sent_tokenize in the fallback
    sentences,       \* the list sent_tokenize returned
    clause,          \* the clause text handed to the classifier
    risk_score,      \* value returned by assess_clause_risk
    category,        \* value returned by get_risk_category
    results,         \* the list of result records
    overall_risk,    \* value returned by calculate_overall_risk
    has_openai,      \* HAS_OPENAI: the openai package can be imported
    api_key,         \* os.environ.get("OPENAI_API_KEY")
    client,          \* RiskAnalyzer.client
    loop_i,          \* the loop variable i of the analysis loop (0-based)
    explanation,     \* value returned by explain_clause
    suggestion,      \* value returned by suggest_alternative
    error_name,      \* type name of the exception the handler is holding
    requests,        \* the requests sent to the provider, with their outcomes
    provider,        \* what the provider can do with a request in this environment
    analysis_results, \* st.session_state.analysis_results
    rule_objects,    \* the rule-set objects that exist, by object identity
    analyzer,        \* the RiskAnalyzer of this analysis: its object, 0 before it is built
    other_analyzer,  \* the RiskAnalyzer of another analysis that runs interleaved
    calls,           \* the calls made on the analyzers, with what they returned
    tasks            \* the loop bodies of the clauses, when each runs as a task of its own

segVars == <<contract_text, pattern_idx, clauses, breaks, sentences>>
riskVars == <<clause, risk_score, category>>
scoreVars == <<results, overall_risk>>
objVars == <<rule_objects, analyzer, other_analyzer, calls>>
confVars == <<has_openai, api_key, client, provider, objVars>>
callVars == <<explanation, suggestion, error_name, requests>>
loopVars == <<loop_i, analysis_results, tasks>>

vars == <<pc, segVars, riskVars, scoreVars, confVars, callVars, loopVars>>

\* Python's None, and None where a str is expected
None == "None"
NoneStr == <<"<None>">>
\* None, and a list, where a list is expected
NoneList == [is_none |-> TRUE, list |-> <<>>]
SomeList(l) == [is_none |-> FALSE, list |-> l]

\* ------------------------------------------------------------------ strings

NL == "\n"
SP == " "

Digits == {"1", "2", "3", "4"}
Whitespace == {NL, SP}
ParenLetters == {"(a)", "(b)"}

\* len() of one piece, in characters
PieceLen(p) ==
    CASE p = "w51" -> 51
      [] p = "w50" -> 50
      [] p = "w10" -> 10
      [] p \in ParenLetters -> 3
      [] p \in {"SECTION", "ARTICLE", "penalty", "Penalty"} -> 7
      [] p \in {"unilateral termination", "Unilateral Termination"} -> 22
      [] p \in {"indemnify", "INDEMNIFY", "terminate"} -> 9
      [] p \in {"all losses", "good faith", "indefinite"} -> 10
      [] p \in {"force majeure", "without cause"} -> 13
      [] p = "confidential" -> 12
      [] p = "mutual agreement" -> 16
      [] p = "broad" -> 5
      [] p = "ity" -> 3
      [] OTHER -> 1

RECURSIVE StrLen(_)
\* len(s)
StrLen(s) == IF s = <<>> THEN 0 ELSE PieceLen(Head(s)) + StrLen(Tail(s))

RECURSIVE LStrip(_)
LStrip(s) == IF s # <<>> /\ Head(s) \in Whitespace THEN LStrip(Tail(s)) ELSE s

RECURSIVE RStrip(_)
RStrip(s) ==
    IF s # <<>> /\ s[Len(s)] \in Whitespace THEN RStrip(SubSeq(s, 1, Len(s) - 1)) ELSE s

Strip_left(s) == LStrip(s)

\* str.strip()
Strip(s) == LStrip(RStrip(s))

RECURSIVE Join(_, _)
\* sep.join(parts)
Join(sep, parts) ==
    IF parts = <<>> THEN <<>>
    ELSE IF Len(parts) = 1 THEN parts[1]
    ELSE parts[1] \o sep \o Join(sep, Tail(parts))

RECURSIVE Concat(_)
Concat(parts) == IF parts = <<>> THEN <<>> ELSE Head(parts) \o Concat(Tail(parts))

\* ------------------------------------------------------- clause_patterns

\* One element of a structural pattern: a character class, once or one-or-more.
El(c, m) == [cls |-> c, plus |-> m]

\* the five structural split patterns, in their listed order
clause_patterns == <<
    << El("nl", FALSE), El("digit", TRUE), El("dot", FALSE), El("ws", FALSE) >>,
    << El("nl", FALSE), El("parenletter", FALSE), El("ws", FALSE) >>,
    << El("nl", FALSE), El("SECTION", FALSE), El("ws", TRUE), El("digit", TRUE) >>,
    << El("nl", FALSE), El("ARTICLE", FALSE), El("ws", TRUE), El("digit", TRUE) >>,
    << El("nl", FALSE), El("digit", TRUE), El("dot", FALSE), El("digit", TRUE),
       El("dot", FALSE) >> >>

NumPatterns == Len(clause_patterns)

InClass(c, p) ==
    CASE c = "nl" -> p = NL
      [] c = "ws" -> p \in Whitespace
      [] c = "digit" -> p \in Digits
      [] c = "dot" -> p = "."
      [] c = "parenletter" -> p \in ParenLetters
      [] OTHER -> p = c

RECURSIVE RunEnd(_, _, _)
\* first position at or after i whose piece is not in class c
RunEnd(c, s, i) == IF i <= Len(s) /\ InClass(c, s[i]) THEN RunEnd(c, s, i + 1) ELSE i

RECURSIVE MatchFrom(_, _, _, _)
\* the position just after a match of pat[k..] that starts at i, or 0 when
\* there is none (adjacent classes of the patterns are disjoint, so the greedy
\* match is the only one)
MatchFrom(pat, k, s, i) ==
    IF k > Len(pat) THEN i
    ELSE IF i > Len(s) \/ ~InClass(pat[k].cls, s[i]) THEN 0
    ELSE IF pat[k].plus THEN MatchFrom(pat, k + 1, s, RunEnd(pat[k].cls, s, i))
    ELSE MatchFrom(pat, k + 1, s, i + 1)

RECURSIVE SplitFrom(_, _, _, _)
SplitFrom(pat, s, i, start) ==
    IF i > Len(s) THEN << SubSeq(s, start, Len(s)) >>
    ELSE LET e == MatchFrom(pat, 1, s, i) IN
         IF e # 0 THEN << SubSeq(s, start, i - 1) >> \o SplitFrom(pat, s, e, e)
         ELSE SplitFrom(pat, s, i + 1, start)

\* re.split(pattern, text): the leftmost non-overlapping matches are removed
re_split(pat, s) == SplitFrom(pat, s, 1, 1)

\* number of matches of the pattern in the text
NumMatches(pat, s) == Len(re_split(pat, s)) - 1

\* ------------------------------------------------------- extract_clauses

MinClauseLen == 50
MinClauses == 3

LongEnough_ge(c) == StrLen(c) >= MinClauseLen

\* the length test of a stripped fragment
LongEnough(c) == StrLen(c) > MinClauseLen

RECURSIVE Cleaned(_)
\* strip every fragment and keep those longer than the minimum clause length
Cleaned(frags) ==
    IF frags = <<>> THEN <<>>
    ELSE LET c == Strip(Head(frags)) IN
         (IF LongEnough(c) THEN <<c>> ELSE <<>>) \o Cleaned(Tail(frags))

Accepted_ge(frags, cleaned) == Len(frags) > 1 /\ Len(cleaned) >= MinClauses

Accepted_any(frags, cleaned) == Len(frags) > 1 /\ Len(cleaned) > 0

\* the acceptance test of one pattern's cleaned fragments
Accepted(frags, cleaned) == Len(frags) > 1 /\ Len(cleaned) > MinClauses

\* the pattern the loop turns to after pattern k was rejected
NextPattern(k) == k + 1

\* sent_tokenize (NLTK punkt): a sentence can end only at a "." that is followed
\* by whitespace and a further token; whether it does there is decided by the
\* tokenizer's trained parameters, which the model leaves open.
BreakCandidates(s) ==
    { i \in 1..Len(s) :
        /\ s[i] = "."
        /\ i < Len(s)
        /\ s[i + 1] \in Whitespace
        /\ \E j \in (i + 1)..Len(s) : s[j] \notin Whitespace }

RECURSIVE SentencesFrom(_, _, _, _)
\* the slices of s from start on, cut after every position of B; the whitespace
\* after a cut belongs to no sentence; the last sentence loses trailing
\* whitespace and is dropped when empty
SentencesFrom(s, B, i, start) ==
    IF i > Len(s) THEN
        LET last == SubSeq(s, start, Len(RStrip(s))) IN
        IF last = <<>> THEN <<>> ELSE <<last>>
    ELSE IF i \in B THEN
        LET nxt == RunEnd("ws", s, i + 1) IN
        << SubSeq(s, start, i) >> \o SentencesFrom(s, B, nxt, nxt)
    ELSE SentencesFrom(s, B, i + 1, start)

sent_tokenize(s, B) == SentencesFrom(s, B, 1, 1)

GroupSize == 3

EndsGroup(sentence) == sentence # <<>> /\ sentence[Len(sentence)] \in {":", ";"}

GroupCloses_size_only(current, sentence) == Len(current) >= GroupSize

\* the test that closes the running group after a sentence was appended
GroupCloses(current, sentence) == Len(current) >= GroupSize \/ EndsGroup(sentence)

Flush_always(current_clause, out) == Append(out, Join(<<SP>>, current_clause))

\* the trailing group is emitted when it is not empty
Flush(current_clause, out) ==
    IF current_clause # <<>> THEN Append(out, Join(<<SP>>, current_clause)) ELSE out

RECURSIVE GroupFrom(_, _, _)
\* the fallback loop over the sentences, with the running group current_clause
GroupFrom(sents, current_clause, out) ==
    IF sents = <<>> THEN Flush(current_clause, out)
    ELSE LET cur == Append(current_clause, Head(sents)) IN
         IF GroupCloses(cur, Head(sents))
         THEN GroupFrom(Tail(sents), <<>>, Append(out, Join(<<SP>>, cur)))
         ELSE GroupFrom(Tail(sents), cur, out)

GroupSentences(sents) == GroupFrom(sents, <<>>, <<>>)

\* ------------------------------------------------------------------ inputs

MaxItems == 4
MaxSentences == 4

Marker1 == <<NL, "1", ".", SP>>
Marker2 == <<NL, "(a)", SP>>
Marker3 == <<NL, "SECTION", SP, "1">>
Marker4 == <<NL, "ARTICLE", SP, "2">>
Marker5 == <<NL, "1", ".", "2", ".">>

\* the kinds of marker one document uses: two numbering schemes side by side,
\* or numbered clauses and sections that each open with a lettered sub-clause
MarkerKinds ==
    { {Marker1, Marker2}, {Marker1, Marker5}, {Marker2, Marker3}, {Marker3, Marker4},
      {Marker4, Marker5}, {Marker1 \o Marker2}, {Marker3 \o Marker2} }
Bodies == {<<"w51">>, <<"w50">>}
\* no preamble, or a title line that ends with a space before the first marker
Preambles == {<<>>, <<"w51", SP>>}

ItemsOf(ms) == { m \o b : m \in ms, b \in Bodies }

SeqsUpTo(S, n) == UNION { [1..k -> S] : k \in 0..n }

\* documents with structural markers: a preamble and up to MaxItems marked items
StructTexts ==
    { p \o Concat(its) :
        p \in Preambles,
        its \in UNION { SeqsUpTo(ItemsOf(ms), MaxItems) : ms \in MarkerKinds } }

SentenceChunks == {<<"w10", ".", SP>>, <<"w10", ";", SP>>, <<"w10", SP>>, <<NL>>}

\* running text without markers
SentTexts == { Concat(cs) : cs \in SeqsUpTo(SentenceChunks, MaxSentences) }

\* ----------------------------------------------------------------- actions

RiskIdle == clause = NoneStr /\ risk_score = None /\ category = None
ScoreIdle == results = <<>> /\ overall_risk = None
ConfIdle == has_openai = FALSE /\ api_key = NoneStr /\ client = None /\ provider = {}
CallIdle ==
    explanation = NoneStr /\ suggestion = NoneStr /\ error_name = NoneStr /\ requests = <<>>
LoopIdle == loop_i = 0 /\ analysis_results = NoneList /\ tasks = <<>>
NoAnalyzer == rule_objects = <<>> /\ analyzer = 0 /\ other_analyzer = 0 /\ calls = <<>>

InitSeg ==
    /\ contract_text \in StructTexts \cup SentTexts
    /\ pc = "patterns"
    /\ pattern_idx = 1
    /\ clauses = <<>>
    /\ breaks = {}
    /\ sentences = <<>>
    /\ RiskIdle
    /\ ScoreIdle
    /\ ConfIdle /\ CallIdle /\ LoopIdle
    /\ NoAnalyzer

Fragments_no_preamble(k, text) == Tail(re_split(clause_patterns[k], text))

\* clauses = re.split(pattern, contract_text), for the pattern the loop is at:
\* the text before the first marker is the first fragment
Fragments(k, text) == re_split(clause_patterns[k], text)

\* one iteration of the for loop over clause_patterns
TryPattern ==
    /\ pc = "patterns"
    /\ IF Accepted(Fragments(pattern_idx, contract_text),
                   Cleaned(Fragments(pattern_idx, contract_text)))
       THEN /\ clauses' = Cleaned(Fragments(pattern_idx, contract_text))
            /\ pc' = "returned_structural"
            /\ UNCHANGED pattern_idx
       ELSE /\ pattern_idx' = NextPattern(pattern_idx)
            /\ pc' = IF NextPattern(pattern_idx) \in 1..NumPatterns
                     THEN "patterns" ELSE "fallback"
            /\ UNCHANGED clauses
    /\ UNCHANGED <<contract_text, breaks, sentences, riskVars, scoreVars, confVars, callVars,
                   loopVars>>

\* the fallback: sentences = sent_tokenize(contract_text)
Fallback ==
    /\ pc = "fallback"
    /\ \E B \in SUBSET BreakCandidates(contract_text) :
        /\ breaks' = B
        /\ sentences' = sent_tokenize(contract_text, B)
    /\ pc' = "grouping"
    /\ UNCHANGED <<contract_text, pattern_idx, clauses, riskVars, scoreVars, confVars,
                   callVars, loopVars>>

\* the fallback: the loop over the sentences, the trailing group and the return
GroupLoop ==
    /\ pc = "grouping"
    /\ clauses' = GroupSentences(sentences)
    /\ pc' = "returned_fallback"
    /\ UNCHANGED <<contract_text, pattern_idx, breaks, sentences, riskVars, scoreVars,
                   confVars, callVars, loopVars>>

NextSeg == TryPattern \/ Fallback \/ GroupLoop

\* the sentences the tokenizer can hand to the loop: ended by a full stop, a
\* colon or a semicolon, or by nothing
SentenceForms == {<<"w10", ".">>, <<"w10", ";">>, <<"w10", ":">>, <<"w10">>}

\* the grouping loop on its own, for any list of sentences
InitGroup ==
    /\ sentences \in SeqsUpTo(SentenceForms, MaxSentences)
    /\ pc = "grouping"
    /\ contract_text = NoneStr
    /\ pattern_idx = 0
    /\ clauses = <<>>
    /\ breaks = {}
    /\ RiskIdle
    /\ ScoreIdle
    /\ ConfIdle /\ CallIdle /\ LoopIdle
    /\ NoAnalyzer

NextGroup == GroupLoop

SpecGroup == InitGroup /\ [][NextGroup]_vars

SpecSeg == InitSeg /\ [][NextSeg]_vars

\* ------------------------------------------------- properties: segmentation

Returned == pc \in {"returned_structural", "returned_fallback"}

\* the fragments of pattern k, trimmed
Trimmed(k) ==
    LET f == re_split(clause_patterns[k], contract_text)
    IN [n \in 1..Len(f) |-> Strip(f[n])]

IsSurvivor(c) == StrLen(c) > 50

\* the surviving fragments of pattern k: trimmed and longer than 50 characters
Survivors(k) == SelectSeq(Trimmed(k), IsSurvivor)

Qualifies(k) == Len(Survivors(k)) > 3

\* C1: the patterns are tried in their listed order and the result is the
\* survivors of the first pattern that has more than 3 of them: a structural
\* return at pattern k gives exactly pattern k's survivors, no earlier pattern
\* qualifies, and the sentence fallback returns only when no pattern qualifies.
C1_FirstQualifyingPattern ==
    /\ pc = "returned_structural" =>
          /\ pattern_idx \in 1..NumPatterns
          /\ Qualifies(pattern_idx)
          /\ clauses = Survivors(pattern_idx)
          /\ \A j \in 1..(pattern_idx - 1) : ~Qualifies(j)
    /\ pc = "returned_fallback" => \A k \in 1..NumPatterns : ~Qualifies(k)

\* pattern 2 was accepted although pattern 3 qualifies too with other fragments
C1_Witness ==
    /\ pc = "returned_structural"
    /\ pattern_idx = 2
    /\ Qualifies(3)
    /\ Survivors(3) # clauses
    /\ Len(Survivors(1)) = 1

NoSentence(s) == Strip(s) = <<>>

\* C9: on empty input (the empty string, or whitespace only) extract_clauses
\* runs to its fallback return without stopping on the way and returns the
\* empty sequence.
C9_EmptyInput ==
    NoSentence(contract_text) =>
        /\ pc # "returned_structural"
        /\ pc = "returned_fallback" => clauses = <<>>
        /\ ~Returned => ENABLED NextSeg

C9_Witness ==
    /\ contract_text \in {<<>>, <<NL, NL>>}
    /\ pc = "returned_fallback"
    /\ clauses = <<>>

IsContent(p) == p \notin Whitespace

\* the pieces of s that are not whitespace
Content(s) == SelectSeq(s, IsContent)

\* the input without the separators the returned segmentation split on
WithoutSeparators ==
    IF pc = "returned_structural"
    THEN Concat(re_split(clause_patterns[pattern_idx], contract_text))
    ELSE contract_text

AllNonEmpty == \A n \in 1..Len(clauses) : Strip(clauses[n]) # <<>>

\* C10 as stated: every returned clause is non-empty after trimming and the
\* clauses hold all of the input except separators and whitespace.
C10_NothingDropped ==
    (Returned /\ contract_text # <<>>) =>
        /\ AllNonEmpty
        /\ Content(Concat(clauses)) = Content(WithoutSeparators)

\* C10 amended: every returned clause is non-empty after trimming; the
\* fallback keeps all of the input except whitespace; the structural path
\* keeps the input except the accepted pattern's markers, whitespace and
\* every fragment of trimmed length 50 or less, which is dropped whole.
C10_DropsShortFragments ==
    (Returned /\ contract_text # <<>>) =>
        /\ AllNonEmpty
        /\ pc = "returned_fallback" =>
              Content(Concat(clauses)) = Content(contract_text)
        /\ pc = "returned_structural" =>
              Content(Concat(clauses)) = Content(Concat(Survivors(pattern_idx)))

\* a structural return that dropped a fragment of 50 characters
C10_Witness ==
    /\ pc = "returned_structural"
    /\ \E n \in 1..Len(Trimmed(pattern_idx)) : StrLen(Trimmed(pattern_idx)[n]) = 50
    /\ Content(Concat(clauses)) # Content(WithoutSeparators)

\* some text of the bounded set has a fallback clause of 50 characters or less
FallbackHasShortClause ==
    \E t \in {<<"w10", ".", SP, "w10", ".", SP>>} :
        /\ t \in SentTexts
        /\ \A k \in 1..NumPatterns : Len(re_split(clause_patterns[k], t)) = 1
        /\ \E B \in SUBSET BreakCandidates(t) :
              \E n \in 1..Len(GroupSentences(sent_tokenize(t, B))) :
                  StrLen(GroupSentences(sent_tokenize(t, B))[n]) <= 50

\* C16: the clauses of a structural return are at least 4, each longer than
\* 50 characters and without leading or trailing whitespace; the clauses of
\* a fallback return carry no minimum length (some are 50 characters or
\* shorter) and are not empty.
C16_StructuralMinimum ==
    /\ pc = "returned_structural" =>
          /\ Len(clauses) >= 4
          /\ \A n \in 1..Len(clauses) :
                /\ StrLen(clauses[n]) > 50
                /\ clauses[n][1] \notin Whitespace
                /\ clauses[n][Len(clauses[n])] \notin Whitespace
    /\ pc = "returned_fallback" => \A n \in 1..Len(clauses) : StrLen(clauses[n]) >= 1
    /\ FallbackHasShortClause

\* a structural return of exactly 4 clauses of exactly 51 characters, from a
\* split that also had a fragment of 50
C16_Witness ==
    /\ pc = "returned_structural"
    /\ Len(clauses) = 4
    /\ \A n \in 1..4 : StrLen(clauses[n]) = 51
    /\ Len(Trimmed(pattern_idx)) = 5
    /\ \E n \in 1..5 : StrLen(Trimmed(pattern_idx)[n]) = 50

EndsWithColon(sentence) == sentence[Len(sentence)] \in {":", ";"}

\* the end of the group before position i, for the group ends E
PrevEnd(E, i) == IF \E e \in E : e < i THEN CHOOSE e \in E : e < i /\ \A d \in E : d < i => d <= e
                 ELSE 0

\* E is the set of positions after which the rule emits a group: the third
\* sentence of a group, a sentence that ends with ':' or ';', and the last
\* sentence
GroupEnds(E) ==
    \A i \in 1..Len(sentences) :
        i \in E <=> \/ i - PrevEnd(E, i) = 3
                    \/ EndsWithColon(sentences[i])
                    \/ i = Len(sentences)

\* the sentences of the group that ends at e, joined by single spaces
GroupText(E, e) == Join(<<SP>>, SubSeq(sentences, PrevEnd(E, e) + 1, e))

\* the j-th smallest element of E
NthEnd(E, j) == CHOOSE e \in E : Cardinality({ d \in E : d <= e }) = j

\* C20: the fallback clauses are the groups of consecutive sentences that end
\* exactly where a group has reached 3 sentences or the sentence ends with
\* ':' or ';', and at the last sentence, each joined by single spaces; so a
\* clause holds 1 to 3 sentences, the clauses in order hold every sentence
\* once, and only the last clause can have fewer than 3 sentences without
\* ending in ':' or ';'.
C20_Grouping ==
    pc = "returned_fallback" =>
        \E E \in SUBSET (1..Len(sentences)) :
            /\ GroupEnds(E)
            /\ Len(clauses) = Cardinality(E)
            /\ \A j \in 1..Len(clauses) :
                  LET e == NthEnd(E, j)
                      size == e - PrevEnd(E, e)
                  IN /\ clauses[j] = GroupText(E, e)
                     /\ size \in 1..3
                     /\ (size < 3 /\ ~EndsWithColon(sentences[e])) => j = Len(clauses)
            /\ Concat([j \in 1..Len(clauses) |->
                          SubSeq(sentences, PrevEnd(E, NthEnd(E, j)) + 1, NthEnd(E, j))])
                  = sentences

\* a semicolon closes the first group after one sentence and the other three
\* sentences make the second
C20_Witness ==
    /\ pc = "returned_fallback"
    /\ Len(sentences) = 4
    /\ EndsWithColon(sentences[1])
    /\ \A i \in 2..4 : ~EndsWithColon(sentences[i])
    /\ clauses = <<sentences[1], Join(<<SP>>, SubSeq(sentences, 2, 4))>>

\* the patterns that occur exactly once in the text
OccursOnce == { k \in 1..NumPatterns : NumMatches(clause_patterns[k], contract_text) = 1 }

\* C11: a pattern that occurs exactly once in the text splits it into at most
\* 2 fragments and is never the accepted one; when the loop tries it, it goes
\* on to the next pattern, or to the sentence fallback after the last pattern,
\* and returns nothing yet.
C11_SingleOccurrenceRejected ==
    /\ [](\A k \in OccursOnce :
            /\ Len(re_split(clause_patterns[k], contract_text)) <= 2
            /\ ~(pc = "returned_structural" /\ pattern_idx = k))
    /\ [][(pc = "patterns" /\ pattern_idx \in OccursOnce) =>
            /\ pattern_idx' = pattern_idx + 1
            /\ pc' = (IF pattern_idx < NumPatterns THEN "patterns" ELSE "fallback")
            /\ clauses' = <<>>]_vars

\* the first pattern occurs once, between two long fragments, and the second
\* pattern was accepted after it
C11_Witness ==
    /\ pc = "returned_structural"
    /\ pattern_idx = 2
    /\ 1 \in OccursOnce
    /\ Len(Survivors(1)) = 2

\* a title line of more than 50 characters followed by k numbered clauses of
\* more than 50 characters
NumberedAfterPreamble(k) ==
    <<"w51", SP>> \o Concat([n \in 1..k |-> Marker1 \o <<"w51">>])

\* the pieces a "2. " numbering is made of
NumberingPieces == Digits \cup {"."}

\* C28: on the structural path the text before the first marker is a
\* fragment like any other: when it is longer than 50 characters after
\* trimming it is the first returned clause and the others follow it, so a
\* long preamble followed by k >= 3 numbered clauses of more than 50
\* characters gives k + 1 clauses; the marker text is in none of the returned
\* clauses.
C28_PreambleIsAClause ==
    /\ pc = "returned_structural" =>
          LET f == re_split(clause_patterns[pattern_idx], contract_text)
              pre == Strip(f[1])
              rest == SelectSeq([n \in 1..(Len(f) - 1) |-> Strip(f[n + 1])], IsSurvivor)
          IN /\ clauses = (IF StrLen(pre) > 50 THEN <<pre>> ELSE <<>>) \o rest
             /\ \A n \in 1..Len(clauses) :
                   NumMatches(clause_patterns[pattern_idx], clauses[n]) = 0
    /\ \A k \in 3..MaxItems :
          (Returned /\ contract_text = NumberedAfterPreamble(k)) =>
              /\ pc = "returned_structural"
              /\ pattern_idx = 1
              /\ Len(clauses) = k + 1
              /\ clauses[1] = <<"w51">>
              /\ \A n \in 1..Len(clauses) :
                 \A j \in 1..Len(clauses[n]) : clauses[n][j] \notin NumberingPieces

\* a title line and three numbered clauses: four clauses
C28_Witness ==
    /\ pc = "returned_structural"
    /\ contract_text = NumberedAfterPreamble(3)
    /\ Len(clauses) = 4
    /\ StrLen(clauses[1]) > 50

\* ------------------------------------------------------------ RiskAnalyzer

Lower_unchanged(p) == p

\* str.lower(), piece by piece
Lower(p) ==
    CASE p = "Penalty" -> "penalty"
      [] p = "INDEMNIFY" -> "indemnify"
      [] p = "Unilateral Termination" -> "unilateral termination"
      [] p = "SECTION" -> "section"
      [] p = "ARTICLE" -> "article"
      [] OTHER -> p

StrLower(s) == [n \in 1..Len(s) |-> Lower(s[n])]

\* self.risk_patterns: every pattern is its literal parts, joined by ".*"
high_risk == <<
    << <<"unilateral termination">> >>,
    << <<"exclusive", SP, "jurisdiction">> >>,
    << <<"indemnify">>, <<"all losses">> >>,
    << <<"perpetual license">> >>,
    << <<"irrevocable">>, <<"right">> >>,
    << <<"automatic", SP, "renewal">> >>,
    << <<"liquidated damages">>, <<"excessive">> >>,
    << <<"without cause">> >> >>

medium_risk == <<
    << <<"confidential", "ity">>, <<"indefinite">> >>,
    << <<"non-compete">>, <<"2", SP, "years">> >>,
    << <<"arbitration">>, <<"company">>, <<"venue">> >>,
    << <<"force majeure">>, <<"broad">> >> >>

low_risk == <<
    << <<"mutual agreement">> >>,
    << <<"reasonable">>, <<"notice">> >>,
    << <<"good faith">> >>,
    << <<"pro rata">> >> >>

risk_categories_sorted == <<
    [name |-> "Confidentiality",
     keywords |-> << <<"confidential">>, <<"non-disclosure">>, <<"proprietary">> >>],
    [name |-> "IP Rights",
     keywords |-> << <<"intellectual property">>, <<"copy", "right">>, <<"patent">>,
                     <<"trade secret">> >>],
    [name |-> "Indemnity",
     keywords |-> << <<"indemnify">>, <<"hold harmless">>, <<"defend">> >>],
    [name |-> "Jurisdiction",
     keywords |-> << <<"jurisdiction">>, <<"venue">>, <<"governing law">> >>],
    [name |-> "Penalty Clauses",
     keywords |-> << <<"penalty">>, <<"liquidated damages">>, <<"fine">>, <<"forfeit">> >>],
    [name |-> "Termination",
     keywords |-> << <<"terminate">>, <<"cancel">>, <<"expire">>, <<"renewal">> >>] >>

\* self.risk_categories, in insertion order
risk_categories == <<
    [name |-> "Penalty Clauses",
     keywords |-> << <<"penalty">>, <<"liquidated damages">>, <<"fine">>, <<"forfeit">> >>],
    [name |-> "Indemnity",
     keywords |-> << <<"indemnify">>, <<"hold harmless">>, <<"defend">> >>],
    [name |-> "Termination",
     keywords |-> << <<"terminate">>, <<"cancel">>, <<"expire">>, <<"renewal">> >>],
    [name |-> "Jurisdiction",
     keywords |-> << <<"jurisdiction">>, <<"venue">>, <<"governing law">> >>],
    [name |-> "IP Rights",
     keywords |-> << <<"intellectual property">>, <<"copy", "right">>, <<"patent">>,
                     <<"trade secret">> >>],
    [name |-> "Confidentiality",
     keywords |-> << <<"confidential">>, <<"non-disclosure">>, <<"proprietary">> >>] >>

\* the object __init__ builds from the literals: self.risk_patterns and
\* self.risk_categories
RuleSet ==
    [risk_patterns |-> [high |-> high_risk, medium |-> medium_risk, low |-> low_risk],
     risk_categories |-> risk_categories]

Allocate_shared(heap) == 1

\* the identity of the object a dict display creates: one that no other
\* object has
Allocate(heap) == Len(heap) + 1

\* the objects after __init__ stored its rule set in object id
Constructed(heap, id) ==
    IF id > Len(heap) THEN Append(heap, RuleSet) ELSE [heap EXCEPT ![id] = RuleSet]

\* self, for the analyzer of this analysis, and for the other one
Self == rule_objects[analyzer]
OtherSelf == rule_objects[other_analyzer]

OneAnalyzer ==
    rule_objects = <<RuleSet>> /\ analyzer = 1 /\ other_analyzer = 0 /\ calls = <<>>

\* the literal lit stands in s at position i, letter case ignored
LitAt(lit, s, i) ==
    /\ i + Len(lit) - 1 <= Len(s)
    /\ \A n \in 1..Len(lit) : Lower(s[i + n - 1]) = Lower(lit[n])

\* "." matches every character but the newline
DotStar(s, i, j) == \A n \in i..(j - 1) : s[n] # NL

RECURSIVE SearchParts(_, _, _, _)
\* parts[k..] match in s with parts[k] starting at or after i; for k > 1 the
\* text between i and that start is matched by ".*"
SearchParts(parts, k, s, i) ==
    \E j \in i..Len(s) :
        /\ LitAt(parts[k], s, j)
        /\ (k > 1 => DotStar(s, i, j))
        /\ (k = Len(parts) \/ SearchParts(parts, k + 1, s, j + Len(parts[k])))

\* re.search(pattern, s, re.IGNORECASE) is not None
re_search(parts, s) == SearchParts(parts, 1, s, 1)

\* keyword in s
Contains(keyword, s) ==
    \E j \in 1..Len(s) :
        /\ j + Len(keyword) - 1 <= Len(s)
        /\ \A n \in 1..Len(keyword) : s[j + n - 1] = keyword[n]

RECURSIVE FirstMatching(_, _, _)
\* the for loop over one pattern list: TRUE at the first pattern that matches
FirstMatching(patterns, k, s) ==
    IF k > Len(patterns) THEN FALSE
    ELSE IF re_search(patterns[k], s) THEN TRUE
    ELSE FirstMatching(patterns, k + 1, s)

assess_clause_risk_low_first(self, clause_text) ==
    LET clause_lower == StrLower(clause_text)
    IN IF FirstMatching(self.risk_patterns.low, 1, clause_lower) THEN "Low"
       ELSE IF FirstMatching(self.risk_patterns.high, 1, clause_lower) THEN "High"
       ELSE IF FirstMatching(self.risk_patterns.medium, 1, clause_lower) THEN "Medium"
       ELSE "Low"

assess_clause_risk_medium_first(self, clause_text) ==
    LET clause_lower == StrLower(clause_text)
    IN IF FirstMatching(self.risk_patterns.medium, 1, clause_lower) THEN "Medium"
       ELSE IF FirstMatching(self.risk_patterns.high, 1, clause_lower) THEN "High"
       ELSE "Low"

assess_clause_risk(self, clause_text) ==
    LET clause_lower == StrLower(clause_text)
    IN IF FirstMatching(self.risk_patterns.high, 1, clause_lower) THEN "High"
       ELSE IF FirstMatching(self.risk_patterns.medium, 1, clause_lower) THEN "Medium"
       ELSE "Low"

RECURSIVE FirstKeyword(_, _, _)
\* the inner for loop: TRUE at the first keyword that occurs
FirstKeyword(keywords, k, s) ==
    IF k > Len(keywords) THEN FALSE
    ELSE IF Contains(keywords[k], s) THEN TRUE
    ELSE FirstKeyword(keywords, k + 1, s)

RECURSIVE FirstCategory(_, _, _)
\* the outer for loop over the categories
FirstCategory(cats, c, s) ==
    IF c > Len(cats) THEN "General"
    ELSE IF FirstKeyword(cats[c].keywords, 1, s) THEN cats[c].name
    ELSE FirstCategory(cats, c + 1, s)

get_risk_category(self, clause_text) ==
    LET clause_lower == StrLower(clause_text)
    IN FirstCategory(self.risk_categories, 1, clause_lower)

MaxClausePieces == 4

ClauseVocab ==
    {"unilateral termination", "indemnify", "all losses", "force majeure", "broad",
     "penalty", "Penalty", "INDEMNIFY", NL}

ClauseTexts == SeqsUpTo(ClauseVocab, MaxClausePieces)

SegIdle ==
    /\ contract_text = NoneStr /\ pattern_idx = 0 /\ clauses = <<>> /\ breaks = {}
    /\ sentences = <<>>

InitRisk ==
    /\ clause \in ClauseTexts
    /\ risk_score = None
    /\ category = None
    /\ pc = "classify"
    /\ SegIdle
    /\ ScoreIdle
    /\ ConfIdle /\ CallIdle /\ LoopIdle
    /\ OneAnalyzer

AssessClauseRisk ==
    /\ pc = "classify"
    /\ risk_score = None
    /\ risk_score' = assess_clause_risk(Self, clause)
    /\ UNCHANGED <<pc, clause, category, segVars, scoreVars, confVars, callVars, loopVars>>

GetRiskCategory ==
    /\ pc = "classify"
    /\ category = None
    /\ category' = get_risk_category(Self, clause)
    /\ UNCHANGED <<pc, clause, risk_score, segVars, scoreVars, confVars, callVars, loopVars>>

NextRisk == AssessClauseRisk \/ GetRiskCategory

SpecRisk == InitRisk /\ [][NextRisk]_vars

\* clauses with the phrases of the low-risk patterns
LowVocab ==
    {"good faith", "reasonable", "notice", "mutual agreement", "without cause",
     "force majeure", "broad"}

InitLow ==
    /\ clause \in SeqsUpTo(LowVocab, MaxClausePieces)
    /\ risk_score = None
    /\ category = None
    /\ pc = "classify"
    /\ SegIdle
    /\ ScoreIdle
    /\ ConfIdle /\ CallIdle /\ LoopIdle
    /\ OneAnalyzer

SpecLow == InitLow /\ [][NextRisk]_vars

\* ---------------------------------------------- properties: classification

MatchesHigh == \E k \in 1..Len(high_risk) : re_search(high_risk[k], StrLower(clause))
MatchesMedium == \E k \in 1..Len(medium_risk) : re_search(medium_risk[k], StrLower(clause))

\* C2: a clause that matches a High-risk pattern is High whatever else it
\* matches; it is Medium exactly when no High-risk and some Medium-risk pattern
\* matches, and Low exactly when none of either list matches; the result is
\* always one of the three levels.
C2_RiskPriority ==
    risk_score # None =>
        /\ risk_score \in {"High", "Medium", "Low"}
        /\ MatchesHigh => risk_score = "High"
        /\ risk_score = "Medium" <=> (~MatchesHigh /\ MatchesMedium)
        /\ risk_score = "Low" <=> (~MatchesHigh /\ ~MatchesMedium)

\* a clause with both "unilateral termination" and "force majeure ... broad"
C2_Witness ==
    /\ risk_score = "High"
    /\ MatchesMedium
    /\ Contains(<<"unilateral termination">>, clause)
    /\ Contains(<<"force majeure">>, clause)

DeclaredOrder ==
    <<"Penalty Clauses", "Indemnity", "Termination", "Jurisdiction", "IP Rights",
      "Confidentiality">>

\* the keywords of a category by its name
KeywordsOf(name) ==
    LET c == CHOOSE c \in 1..Len(risk_categories) : risk_categories[c].name = name
    IN risk_categories[c].keywords

NameHasKeyword(name) ==
    \E k \in 1..Len(KeywordsOf(name)) : Contains(KeywordsOf(name)[k], StrLower(clause))

\* C3: the category is the first one in the declared order with a keyword in
\* the lower-cased clause, "General" exactly when no category has one, and
\* "Penalty Clauses" whenever "penalty" and "indemnify" both occur.
C3_FirstCategory ==
    category # None =>
        /\ \A n \in 1..Len(DeclaredOrder) :
              category = DeclaredOrder[n] <=>
                  /\ NameHasKeyword(DeclaredOrder[n])
                  /\ \A m \in 1..(n - 1) : ~NameHasKeyword(DeclaredOrder[m])
        /\ category = "General" <=>
              \A n \in 1..Len(DeclaredOrder) : ~NameHasKeyword(DeclaredOrder[n])
        /\ (Contains(<<"penalty">>, StrLower(clause))
              /\ Contains(<<"indemnify">>, StrLower(clause))) =>
              category = "Penalty Clauses"

\* "indemnify" stands before "penalty" in the clause
C3_Witness ==
    /\ category = "Penalty Clauses"
    /\ Len(clause) >= 3
    /\ clause[1] = "indemnify"
    /\ clause[Len(clause)] = "Penalty"

\* the spellings of a piece that differ in letter case only
CaseForms(p) ==
    CASE p \in {"penalty", "Penalty"} -> {"penalty", "Penalty"}
      [] p \in {"indemnify", "INDEMNIFY"} -> {"indemnify", "INDEMNIFY"}
      [] OTHER -> {p}

RECURSIVE CaseVariants(_)
\* the texts that differ from s in the letter case of their characters only
CaseVariants(s) ==
    IF s = <<>> THEN {<<>>}
    ELSE { <<h>> \o t : h \in CaseForms(Head(s)), t \in CaseVariants(Tail(s)) }

\* C14: every text that differs from the clause in letter case only gets the
\* clause's risk level from assess_clause_risk and the clause's category from
\* get_risk_category.
C14_CaseInsensitive ==
    (risk_score # None /\ category # None) =>
        \A v \in CaseVariants(clause) :
            /\ assess_clause_risk(Self, v) = risk_score
            /\ get_risk_category(Self, v) = category

\* an upper-case "INDEMNIFY ... all losses" with a capitalised "Penalty"
C14_Witness ==
    /\ clause = <<"INDEMNIFY", "all losses", "Penalty">>
    /\ risk_score = "High"
    /\ category = "Penalty Clauses"
    /\ Cardinality(CaseVariants(clause)) = 4

MatchesLow == \E k \in 1..Len(low_risk) : re_search(low_risk[k], StrLower(clause))

\* the phrases the low-risk patterns are made of
LowPhrases == {"mutual agreement", "reasonable", "notice", "good faith", "pro rata"}

IsNotLowPhrase(p) == p \notin LowPhrases

\* C25: the low-risk pattern list is never consulted: the level of a clause
\* is the level found with an empty low-risk list, and the level of the
\* clause with its low-risk phrases taken out; a clause that matches a
\* low-risk pattern and a High pattern is High (and Medium if it matches a
\* Medium and no High pattern); "Low" means exactly that no High and no
\* Medium pattern matched, whether or not a low-risk pattern did.
C25_LowListUnused ==
    risk_score # None =>
        /\ risk_score
              = assess_clause_risk([RuleSet EXCEPT !.risk_patterns.low = <<>>], clause)
        /\ risk_score = assess_clause_risk(RuleSet, SelectSeq(clause, IsNotLowPhrase))
        /\ (MatchesLow /\ MatchesHigh) => risk_score = "High"
        /\ (MatchesLow /\ MatchesMedium /\ ~MatchesHigh) => risk_score = "Medium"
        /\ risk_score = "Low" <=> (~MatchesHigh /\ ~MatchesMedium)

\* "reasonable ... notice" and "good faith" around "without cause"
C25_Witness ==
    /\ clause = <<"reasonable", "without cause", "notice", "good faith">>
    /\ MatchesLow
    /\ risk_score = "High"

\* phrase a occurs in the text s and phrase b occurs somewhere after it
FollowedBy(a, b, s) ==
    \E i, j \in 1..Len(s) : i < j /\ s[i] = a /\ s[j] = b

\* C21: a clause in which "indemnify" is followed, after any intervening
\* text whatever, by "all losses" is classified High, and one in which
\* "force majeure" is followed by "broad" is never classified Low: there is
\* no limit on what the intervening text may be.
C21_AnySpan ==
    risk_score # None =>
        /\ FollowedBy("indemnify", "all losses", StrLower(clause))
               => risk_score = "High"
        /\ FollowedBy("force majeure", "broad", StrLower(clause))
               => risk_score # "Low"

\* ------------------------------------------------- calculate_overall_risk

Result_degraded(num, text, level, cat, expl, sugg) ==
    ("Clause #" :> num) @@ ("Text" :> text)
    @@ ("Risk Level" :> IF expl # <<>> /\ Head(expl) = "(warning sign) " THEN "Low" ELSE level)
    @@ ("Risk Category" :> cat) @@ ("Explanation" :> expl) @@ ("Suggestion" :> sugg)

\* one result record of the analysis loop
Result(num, text, level, cat, expl, sugg) ==
    ("Clause #" :> num) @@ ("Text" :> text) @@ ("Risk Level" :> level)
    @@ ("Risk Category" :> cat) @@ ("Explanation" :> expl) @@ ("Suggestion" :> sugg)

risk_scores_get_inverted(level) ==
    CASE level = "High" -> 1
      [] level = "Medium" -> 2
      [] level = "Low" -> 3
      [] OTHER -> 1

risk_scores_get_zero(level) ==
    CASE level = "High" -> 3
      [] level = "Medium" -> 2
      [] level = "Low" -> 1
      [] OTHER -> 0

\* risk_scores.get(level, 1)
risk_scores_get(level) ==
    CASE level = "High" -> 3
      [] level = "Medium" -> 2
      [] level = "Low" -> 1
      [] OTHER -> 1

Accumulate_last(total_score, score) == score

\* total_score += score
Accumulate(total_score, score) == total_score + score

RECURSIVE TotalFrom(_, _, _)
\* the for loop over the results
TotalFrom(rs, n, total_score) ==
    IF n > Len(rs) THEN total_score
    ELSE TotalFrom(rs, n + 1, Accumulate(total_score, risk_scores_get(rs[n]["Risk Level"])))

MediumThreshold_low == <<7, 5>>

\* a score as a fraction <<numerator, denominator>> with a positive denominator
HighThreshold == <<5, 2>>
MediumThreshold == <<3, 2>>

AtLeast_strict(a, b) == a[1] * b[2] > b[1] * a[2]

\* a >= b
AtLeast(a, b) == a[1] * b[2] >= b[1] * a[2]

HasResults_always(rs) == TRUE

\* if results
HasResults(rs) == rs # <<>>

\* what the method ends with when it divides by zero
ZeroDivisionError == "ZeroDivisionError"

\* the verdict, or ZeroDivisionError when total_score / len(results) is
\* evaluated for an empty list
calculate_overall_risk(rs) ==
    LET total_score == TotalFrom(rs, 1, 0)
        avg_score == IF HasResults(rs) THEN <<total_score, Len(rs)>> ELSE <<1, 1>>
    IN IF avg_score[2] = 0 THEN ZeroDivisionError
       ELSE IF AtLeast(avg_score, HighThreshold) THEN "High Risk"
       ELSE IF AtLeast(avg_score, MediumThreshold) THEN "Medium Risk"
       ELSE "Low Risk"

MaxResults == 4

Levels == {"High", "Medium", "Low"}
LevelValues == Levels \cup {"Critical"}
CategoryValues == {"General", "Indemnity"}

ScoreRecords ==
    { Result(0, <<>>, l, c, <<>>, <<>>) : l \in LevelValues, c \in CategoryValues }

InitScore ==
    /\ results \in SeqsUpTo(ScoreRecords, MaxResults)
    /\ overall_risk = None
    /\ pc = "score"
    /\ SegIdle
    /\ RiskIdle
    /\ ConfIdle /\ CallIdle /\ LoopIdle
    /\ OneAnalyzer

CalculateOverallRisk ==
    /\ pc = "score"
    /\ IF calculate_overall_risk(results) = ZeroDivisionError
       THEN pc' = "raised" /\ UNCHANGED overall_risk
       ELSE overall_risk' = calculate_overall_risk(results) /\ pc' = "scored"
    /\ UNCHANGED <<results, segVars, riskVars, confVars, callVars, loopVars>>

NextScore == CalculateOverallRisk

SpecScore == InitScore /\ [][NextScore]_vars

MaxLevels == 6

\* longer lists, of the three levels
LevelRecords == { Result(0, <<>>, l, "General", <<>>, <<>>) : l \in Levels }

InitLevels ==
    /\ results \in SeqsUpTo(LevelRecords, MaxLevels)
    /\ overall_risk = None
    /\ pc = "score"
    /\ SegIdle
    /\ RiskIdle
    /\ ConfIdle /\ CallIdle /\ LoopIdle
    /\ OneAnalyzer

SpecLevels == InitLevels /\ [][NextScore]_vars

\* ----------------------------------------------------- properties: scoring

LevelsOf(rs) == [n \in 1..Len(rs) |-> rs[n]["Risk Level"]]

CountOf(rs, l) == Cardinality({ n \in 1..Len(rs) : rs[n]["Risk Level"] = l })

\* the sum of the weights High 3, Medium 2, Low 1
WeightSum(rs) == 3 * CountOf(rs, "High") + 2 * CountOf(rs, "Medium") + CountOf(rs, "Low")

AllRecognized(rs) == \A n \in 1..Len(rs) : rs[n]["Risk Level"] \in Levels

\* C4: for a non-empty list of High/Medium/Low the verdict is High Risk iff the
\* mean weight is at least 2.5, Medium Risk iff it is at least 1.5 and below
\* 2.5, Low Risk iff it is below 1.5 (the mean m of n levels with weight sum w
\* satisfies m >= 2.5 iff 2w >= 5n, and m >= 1.5 iff 2w >= 3n).
C4_Thresholds ==
    (pc = "scored" /\ results # <<>> /\ AllRecognized(results)) =>
        LET w == WeightSum(results)
            n == Len(results)
        IN /\ overall_risk = "High Risk" <=> 2 * w >= 5 * n
           /\ overall_risk = "Medium Risk" <=> (2 * w >= 3 * n /\ 2 * w < 5 * n)
           /\ overall_risk = "Low Risk" <=> 2 * w < 3 * n
           /\ LevelsOf(results) = <<"Medium", "Medium">> => overall_risk = "Medium Risk"
           /\ LevelsOf(results) = <<"High", "High", "Low">> => overall_risk = "Medium Risk"
           /\ LevelsOf(results) = <<"High", "High">> => overall_risk = "High Risk"
           /\ LevelsOf(results) = <<"High", "Medium">> => overall_risk = "High Risk"
           /\ LevelsOf(results) = <<"Medium", "Low">> => overall_risk = "Medium Risk"

\* a mean of exactly 2.5
C4_Witness ==
    /\ pc = "scored"
    /\ LevelsOf(results) = <<"High", "Medium">>
    /\ overall_risk = "High Risk"

\* the list rs in the order given by the permutation f of its positions
Permuted(rs, f) == [n \in 1..Len(rs) |-> rs[f[n]]]

\* the list rs with the fields other than the risk level replaced
OtherFields(rs, c) ==
    [n \in 1..Len(rs) |->
        Result(n, <<"w10">>, rs[n]["Risk Level"], c, <<"w10">>, <<"w10">>)]

\* C5: the verdict depends on the multiset of levels only: every permutation
\* of the list, and every list with the same levels and other values in the
\* remaining fields, has the verdict of the list.
C5_OrderIndependent ==
    pc = "scored" =>
        /\ \A f \in Permutations(1..Len(results)) :
              calculate_overall_risk(Permuted(results, f)) = overall_risk
        /\ \A c \in CategoryValues :
              calculate_overall_risk(OtherFields(results, c)) = overall_risk

\* a list whose last level alone would give another verdict
C5_Witness ==
    /\ pc = "scored"
    /\ LevelsOf(results) = <<"High", "High", "Low">>
    /\ overall_risk = "Medium Risk"

\* C18: for the empty result list calculate_overall_risk raises nothing and
\* returns "Low Risk"; no list makes it divide by zero.
C18_EmptyIsLow ==
    /\ pc # "raised"
    /\ (pc = "scored" /\ results = <<>>) => overall_risk = "Low Risk"

C18_Witness ==
    /\ pc = "scored"
    /\ results = <<>>
    /\ overall_risk = "Low Risk"

\* the list with every level that is none of High, Medium, Low replaced by Low
Normalized(rs) ==
    [n \in 1..Len(rs) |->
        IF rs[n]["Risk Level"] \in Levels THEN rs[n]
        ELSE [rs[n] EXCEPT !["Risk Level"] = "Low"]]

\* C19: the verdict of a list is the verdict of the list with every
\* unrecognized level replaced by "Low".
C19_UnrecognizedIsLow ==
    pc = "scored" => calculate_overall_risk(Normalized(results)) = overall_risk

\* an unrecognized level next to a Medium: the mean is 1.5 with weight 1
C19_Witness ==
    /\ pc = "scored"
    /\ LevelsOf(results) = <<"Critical", "Medium">>
    /\ Normalized(results) # results
    /\ overall_risk = "Medium Risk"

\* the order Low < Medium < High of the levels, and of the verdicts
LevelRank(l) == CASE l = "High" -> 3 [] l = "Medium" -> 2 [] l = "Low" -> 1
VerdictRank(v) == CASE v = "High Risk" -> 3 [] v = "Medium Risk" -> 2 [] v = "Low Risk" -> 1

\* the list rs with the level of its n-th record replaced by l
WithLevel(rs, n, l) == [rs EXCEPT ![n]["Risk Level"] = l]

\* C26: the verdict is monotone in the level of every clause: raising the
\* level of one record (Low to Medium, Low to High or Medium to High) and
\* leaving the others as they are never gives a lower verdict in the order
\* Low Risk < Medium Risk < High Risk.
C26_Monotone ==
    pc = "scored" =>
        \A n \in 1..Len(results) :
        \A l \in Levels :
            (/\ results[n]["Risk Level"] \in Levels
             /\ LevelRank(l) > LevelRank(results[n]["Risk Level"]))
                => VerdictRank(calculate_overall_risk(WithLevel(results, n, l)))
                       >= VerdictRank(overall_risk)

\* Medium, Low is Medium Risk, and High Risk once the Low is raised to High
C26_Witness ==
    /\ pc = "scored"
    /\ LevelsOf(results) = <<"Medium", "Low">>
    /\ overall_risk = "Medium Risk"
    /\ calculate_overall_risk(WithLevel(results, 2, "High")) = "High Risk"

\* C27: the mean dilutes a High clause: a list of one High and at least four
\* Low is Low Risk (one High and three Low is still Medium Risk); and a list
\* of High, Medium and Low levels is High Risk only if at least half of its
\* levels are High.
C27_Dilution ==
    pc = "scored" =>
        LET n == Len(results)
            h == CountOf(results, "High")
        IN /\ (h = 1 /\ CountOf(results, "Low") = n - 1 /\ n >= 5)
                  => overall_risk = "Low Risk"
           /\ (h = 1 /\ CountOf(results, "Low") = n - 1 /\ n = 4)
                  => overall_risk = "Medium Risk"
           /\ overall_risk = "High Risk" => 2 * h >= n

\* Low, Low, High, Low, Low is Low Risk
C27_Witness ==
    /\ pc = "scored"
    /\ LevelsOf(results) = <<"Low", "Low", "High", "Low", "Low">>
    /\ overall_risk = "Low Risk"

\* ------------------------------------------------ explanation provider

\* RiskAnalyzer.__init__: the client exists when the package and a key do
Client(has, key) ==
    IF has THEN (IF key # NoneStr /\ key # <<>> THEN "OpenAI" ELSE None) ELSE None

\* the guard of explain_clause and suggest_alternative
NotConfigured(has, cl) == ~has \/ cl = None

Warn == "(warning sign) "

NotConfiguredExplain ==
    <<Warn, "OpenAI API not configured. Set OPENAI_API_KEY environment variable to enable AI explanations.">>
NotConfiguredSuggest ==
    <<Warn, "OpenAI API not configured. Set OPENAI_API_KEY environment variable to enable suggestions.">>
AuthFailed == <<Warn, "OpenAI authentication failed. Check your OPENAI_API_KEY is valid.">>
RateLimited == <<Warn, "OpenAI rate limit exceeded. Please try again later.">>

\* what chat.completions.create can do: answer with a content (which can be
\* None), or raise an exception of some type
Response(c) == [kind |-> "response", content |-> c, name |-> NoneStr]
Raise(n) == [kind |-> "raise", content |-> NoneStr, name |-> n]

ErrorNames ==
    {<<"AuthenticationError">>, <<"RateLimitError">>, <<"APIConnectionError">>,
     <<"Azure", "AuthenticationError">>}

Outcomes ==
    {Response(<<SP, "w10", SP>>), Response(NoneStr)} \cup { Raise(n) : n \in ErrorNames }

\* success, authentication failure, rate limit, another exception
MainOutcomes ==
    {Response(<<SP, "w10", SP>>), Raise(<<"AuthenticationError">>),
     Raise(<<"RateLimitError">>), Raise(<<"APIConnectionError">>)}

\* a provider that answers or reports a rate limit
ScenarioProvider == {Response(<<SP, "w10", SP>>), Raise(<<"RateLimitError">>)}

\* the try block ends with a return
Succeeds(o) == o.kind = "response" /\ o.content # NoneStr

\* type(e).__name__ of the exception the try block ends with otherwise:
\* None has no strip()
RaisedName(o) == IF o.kind = "raise" THEN o.name ELSE <<"AttributeError">>

Catches_named(name) ==
    Contains(<<"AuthenticationError">>, name) \/ Contains(<<"RateLimitError">>, name)

\* except Exception
Catches(name) == TRUE

explain_degraded_swapped(name) ==
    IF Contains(<<"AuthenticationError">>, name) THEN RateLimited
    ELSE IF Contains(<<"RateLimitError">>, name) THEN AuthFailed
    ELSE <<Warn, "Unable to generate explanation: ">> \o name

\* the except handler of explain_clause
explain_degraded(name) ==
    IF Contains(<<"AuthenticationError">>, name) THEN AuthFailed
    ELSE IF Contains(<<"RateLimitError">>, name) THEN RateLimited
    ELSE <<Warn, "Unable to generate explanation: ">> \o name

\* the except handler of suggest_alternative
suggest_degraded(name) ==
    IF Contains(<<"AuthenticationError">>, name) THEN AuthFailed
    ELSE IF Contains(<<"RateLimitError">>, name) THEN RateLimited
    ELSE <<Warn, "Suggestions unavailable: ">> \o name

AfterHandler_retry(op) == IF op = "explain" THEN "explain" ELSE "suggest"

\* where control goes when the except handler of op has returned its string:
\* back to the caller's next statement
AfterHandler(op) == IF op = "explain" THEN "suggest" ELSE "append"

Request(op, n, o) == [op |-> op, clause |-> n, outcome |-> o]

\* explain_clause up to the end of its try block
ExplainCall ==
    /\ pc = "explain"
    /\ IF NotConfigured(has_openai, client)
       THEN /\ explanation' = NotConfiguredExplain
            /\ pc' = "suggest"
            /\ UNCHANGED <<error_name, requests>>
       ELSE \E o \in provider :
            /\ requests' = Append(requests, Request("explain", loop_i, o))
            /\ IF Succeeds(o)
               THEN /\ explanation' = Strip(o.content)
                    /\ pc' = "suggest"
                    /\ UNCHANGED error_name
               ELSE /\ error_name' = RaisedName(o)
                    /\ pc' = IF Catches(RaisedName(o)) THEN "explain_except" ELSE "aborted"
                    /\ UNCHANGED explanation
    /\ UNCHANGED <<suggestion, segVars, riskVars, scoreVars, confVars, loopVars>>

ExplainExcept ==
    /\ pc = "explain_except"
    /\ explanation' = explain_degraded(error_name)
    /\ error_name' = NoneStr
    /\ pc' = AfterHandler("explain")
    /\ UNCHANGED <<suggestion, requests, segVars, riskVars, scoreVars, confVars, loopVars>>

\* suggest_alternative up to the end of its try block
SuggestCall ==
    /\ pc = "suggest"
    /\ IF NotConfigured(has_openai, client)
       THEN /\ suggestion' = NotConfiguredSuggest
            /\ pc' = "append"
            /\ UNCHANGED <<error_name, requests>>
       ELSE \E o \in provider :
            /\ requests' = Append(requests, Request("suggest", loop_i, o))
            /\ IF Succeeds(o)
               THEN /\ suggestion' = Strip(o.content)
                    /\ pc' = "append"
                    /\ UNCHANGED error_name
               ELSE /\ error_name' = RaisedName(o)
                    /\ pc' = IF Catches(RaisedName(o)) THEN "suggest_except" ELSE "aborted"
                    /\ UNCHANGED suggestion
    /\ UNCHANGED <<explanation, segVars, riskVars, scoreVars, confVars, loopVars>>

SuggestExcept ==
    /\ pc = "suggest_except"
    /\ suggestion' = suggest_degraded(error_name)
    /\ error_name' = NoneStr
    /\ pc' = AfterHandler("suggest")
    /\ UNCHANGED <<explanation, requests, segVars, riskVars, scoreVars, confVars, loopVars>>

ApiKeys == {NoneStr, <<>>, <<"sk-key">>}

ProviderClauses == {<<"w10">>, <<"without cause">>, <<"penalty", SP, "w51">>}

\* one analyzer, constructed in some environment, asked about one clause
InitProvider ==
    /\ has_openai \in BOOLEAN
    /\ api_key \in ApiKeys
    /\ client = Client(has_openai, api_key)
    /\ provider = Outcomes
    /\ clause \in ProviderClauses
    /\ risk_score = None
    /\ category = None
    /\ pc = "explain"
    /\ SegIdle /\ ScoreIdle /\ CallIdle /\ LoopIdle
    /\ OneAnalyzer

NextProvider == ExplainCall \/ ExplainExcept \/ SuggestCall \/ SuggestExcept

SpecProvider == InitProvider /\ [][NextProvider]_vars

\* ------------------------------------------- analyzers of two analyses

MaxCalls == 3

ClassifierOps == {"assess_clause_risk", "get_risk_category"}
ProviderOps == {"explain_clause", "suggest_alternative"}
Ops == ClassifierOps \cup ProviderOps \cup {"calculate_overall_risk"}

RulesAfter_forgets(op, rules) ==
    IF op = "explain_clause" THEN [rules EXCEPT !.risk_patterns.high = <<>>] ELSE rules

RulesAfter_sorts(op, rules) ==
    IF op = "get_risk_category"
    THEN [rules EXCEPT !.risk_categories = risk_categories_sorted] ELSE rules

\* the rule set of self after the method op has run: no method assigns to
\* self.risk_patterns or self.risk_categories, or changes what they hold
RulesAfter(op, rules) == rules

CallTexts == {<<"without cause">>, <<"Penalty", SP, "indemnify">>}
LevelLists == {<<>>, <<"High", "Low">>}

\* the arguments a method is called with
ArgsOf(op) ==
    IF op = "calculate_overall_risk" THEN LevelLists
    ELSE IF op \in ProviderOps THEN {<<"without cause">>}
    ELSE CallTexts

\* a result list with the given levels
ResultsWith(levels) ==
    [n \in 1..Len(levels) |-> Result(n, <<>>, levels[n], "General", <<>>, <<>>)]

\* the provider is asked when the method is one of the two and the analyzer
\* is configured
Asks(op) == op \in ProviderOps /\ ~NotConfigured(has_openai, client)

\* what the method op of the analyzer self returns for the argument arg, with
\* the provider doing o when it is asked
Returns(self, op, arg, o) ==
    CASE op = "assess_clause_risk" -> <<assess_clause_risk(self, arg)>>
      [] op = "get_risk_category" -> <<get_risk_category(self, arg)>>
      [] op = "calculate_overall_risk" -> <<calculate_overall_risk(ResultsWith(arg))>>
      [] op = "explain_clause" ->
            IF ~Asks(op) THEN NotConfiguredExplain
            ELSE IF Succeeds(o) THEN Strip(o.content)
            ELSE explain_degraded(RaisedName(o))
      [] op = "suggest_alternative" ->
            IF ~Asks(op) THEN NotConfiguredSuggest
            ELSE IF Succeeds(o) THEN Strip(o.content)
            ELSE suggest_degraded(RaisedName(o))

Call(who, op, arg, ret) == [who |-> who, op |-> op, arg |-> arg, ret |-> ret]

\* one method call on the analyzer object id, made by the analysis who
MethodCall(who, id) ==
    /\ pc = "session"
    /\ id # 0
    /\ Len(calls) < MaxCalls
    /\ \E op \in Ops :
        \E arg \in ArgsOf(op) :
        \E o \in provider :
            /\ calls' = Append(calls, Call(who, op, arg, Returns(rule_objects[id], op, arg, o)))
            /\ rule_objects' = [rule_objects EXCEPT ![id] = RulesAfter(op, @)]
            /\ requests' = IF Asks(op)
                            THEN Append(requests, Request(op, Len(calls), o))
                            ELSE requests
    /\ UNCHANGED <<pc, segVars, riskVars, scoreVars, has_openai, api_key, client, provider,
                   analyzer, other_analyzer, explanation, suggestion, error_name, loopVars>>

\* analyzer = RiskAnalyzer(), in this analysis
BuildAnalyzer ==
    /\ pc = "session"
    /\ analyzer = 0
    /\ analyzer' = Allocate(rule_objects)
    /\ rule_objects' = Constructed(rule_objects, Allocate(rule_objects))
    /\ client' = Client(has_openai, api_key)
    /\ UNCHANGED <<pc, segVars, riskVars, scoreVars, has_openai, api_key, provider,
                   other_analyzer, calls, callVars, loopVars>>

\* analyzer = RiskAnalyzer(), in the other analysis, in the same environment
BuildOther ==
    /\ pc = "session"
    /\ other_analyzer = 0
    /\ other_analyzer' = Allocate(rule_objects)
    /\ rule_objects' = Constructed(rule_objects, Allocate(rule_objects))
    /\ client' = Client(has_openai, api_key)
    /\ UNCHANGED <<pc, segVars, riskVars, scoreVars, has_openai, api_key, provider,
                   analyzer, calls, callVars, loopVars>>

ThisCall == MethodCall("this", analyzer)
OtherCall == MethodCall("other", other_analyzer)

InitAnalyzers ==
    /\ has_openai \in BOOLEAN
    /\ api_key = <<"sk-key">>
    /\ client = None
    /\ provider = ScenarioProvider
    /\ pc = "session"
    /\ SegIdle /\ RiskIdle /\ ScoreIdle /\ CallIdle /\ LoopIdle
    /\ NoAnalyzer

NextAnalyzers == BuildAnalyzer \/ BuildOther \/ ThisCall \/ OtherCall

SpecAnalyzers == InitAnalyzers /\ [][NextAnalyzers]_vars

\* ------------------------------------------------------ the analysis loop

SliceLimit == 100

RECURSIVE TakeChars(_, _)
\* s[:n]; a piece the cut falls into keeps its first characters only
TakeChars(s, n) ==
    IF s = <<>> \/ n = 0 THEN <<>>
    ELSE IF PieceLen(Head(s)) <= n
         THEN <<Head(s)>> \o TakeChars(Tail(s), n - PieceLen(Head(s)))
         ELSE << Head(s) \o "[:" \o ToString(n) \o "]" >>

\* clause[:100] + "..."
DisplayText(c) == TakeChars(c, SliceLimit) \o <<"...">>

NextIndex_skip(n) == n + 2

\* the statement the loop turns to after the record of a clause was appended
NextIndex(n) == n + 1

\* the button handler: the analysis starts when a text is stored; the
\* analyzer is constructed in the environment of the process
Analyze ==
    /\ pc = "idle"
    /\ has_openai
    /\ contract_text # <<>>
    /\ client' = Client(has_openai, api_key)
    /\ analyzer' = Allocate(rule_objects)
    /\ rule_objects' = Constructed(rule_objects, Allocate(rule_objects))
    /\ pattern_idx' = 1
    /\ pc' = "patterns"
    /\ UNCHANGED <<contract_text, clauses, breaks, sentences, riskVars, scoreVars,
                   has_openai, api_key, provider, other_analyzer, calls, callVars, loopVars>>

\* for i, clause in enumerate(clauses)
ForNext ==
    /\ pc \in {"returned_structural", "returned_fallback", "for"}
    /\ IF loop_i < Len(clauses)
       THEN /\ clause' = clauses[loop_i + 1]
            /\ pc' = "assess"
       ELSE /\ pc' = "store"
            /\ UNCHANGED clause
    /\ UNCHANGED <<risk_score, category, segVars, scoreVars, confVars, callVars, loopVars>>

LoopAssess ==
    /\ pc = "assess"
    /\ risk_score' = assess_clause_risk(Self, clause)
    /\ pc' = "explain"
    /\ UNCHANGED <<clause, category, segVars, scoreVars, confVars, callVars, loopVars>>

SessionAfterAppend_writes(stored, rs) == SomeList(rs)

\* st.session_state.analysis_results after the loop body has appended its
\* record to the list rs: the loop body does not assign to the session state
SessionAfterAppend(stored, rs) == stored

\* results.append({...}) and the end of the loop body
AppendResult ==
    /\ pc = "append"
    /\ category' = get_risk_category(Self, clause)
    /\ results' = Append(results,
                         Result(loop_i + 1, DisplayText(clause), risk_score,
                                get_risk_category(Self, clause), explanation, suggestion))
    /\ loop_i' = NextIndex(loop_i)
    /\ analysis_results' = SessionAfterAppend(analysis_results, results')
    /\ pc' = "for"
    /\ UNCHANGED <<clause, risk_score, overall_risk, segVars, confVars, callVars, tasks>>

StoreResults ==
    /\ pc = "store"
    /\ analysis_results' = SomeList(results)
    /\ pc' = "overall"
    /\ UNCHANGED <<loop_i, tasks, segVars, riskVars, scoreVars, confVars, callVars>>

Overall ==
    /\ pc = "overall"
    /\ IF calculate_overall_risk(results) = ZeroDivisionError
       THEN pc' = "aborted" /\ UNCHANGED overall_risk
       ELSE overall_risk' = calculate_overall_risk(results) /\ pc' = "done"
    /\ UNCHANGED <<results, segVars, riskVars, confVars, callVars, loopVars>>

\* four numbered clauses of more than 50 characters
NumberedText ==
    <<"1", ".", SP, "terminate", SP, "without cause", SP, "w51",
      NL, "2", ".", SP, "confidential", "ity", SP, "indefinite", SP, "w51",
      NL, "3", ".", SP, "w51",
      NL, "4", ".", SP, "mutual agreement", SP, "w51">>

RunTexts ==
    { <<>>,
      <<NL>>,
      <<"without cause", SP, "w10", ".">>,
      <<"penalty", ".", SP, "indemnify", SP, "all losses", ".", SP, "w10", ".", SP, "w10", ":">>,
      NumberedText }

\* the process before the button is pressed, with a provider that can do P
InitWith(P) ==
    /\ contract_text \in RunTexts
    /\ has_openai \in BOOLEAN
    /\ api_key \in ApiKeys
    /\ client = None
    /\ provider = P
    /\ pc = "idle"
    /\ pattern_idx = 0
    /\ clauses = <<>>
    /\ breaks = {}
    /\ sentences = <<>>
    /\ RiskIdle /\ ScoreIdle /\ CallIdle /\ LoopIdle
    /\ NoAnalyzer

InitRun == InitWith(MainOutcomes)

NextRun ==
    \/ Analyze
    \/ TryPattern
    \/ Fallback
    \/ GroupLoop
    \/ ForNext
    \/ LoopAssess
    \/ ExplainCall
    \/ ExplainExcept
    \/ SuggestCall
    \/ SuggestExcept
    \/ AppendResult
    \/ StoreResults
    \/ Overall

Spec == InitRun /\ [][NextRun]_vars

\* providers that answer every request in one of at most two ways
TwoWayProviders == { P \in SUBSET MainOutcomes : Cardinality(P) \in {1, 2} }

InitTwoWay == \E P \in TwoWayProviders : InitWith(P)

\* the statements of the analysis loop and after it
LoopStep ==
    \/ ForNext
    \/ LoopAssess
    \/ ExplainCall
    \/ ExplainExcept
    \/ SuggestCall
    \/ SuggestExcept
    \/ AppendResult
    \/ StoreResults
    \/ Overall

\* the script runs on its own: a statement that can be executed is executed
\* (every provider call ends, with a response or an exception)
FairSpec == InitTwoWay /\ [][NextRun]_vars /\ WF_vars(LoopStep)

\* the four numbered clauses of the end-to-end scenario, each padded with 51
\* letters
ScenarioClauses == <<
    <<"1", ".", SP, "terminate", SP, "without cause", SP, "w51", ".">>,
    <<"2", ".", SP, "confidential", "ity", SP, "indefinite", SP, "w51", ".">>,
    <<"3", ".", SP, "w51", ".">>,
    <<"4", ".", SP, "mutual agreement", SP, "w51", ".">> >>

\* every clause on a line of its own, with and without a newline before the
\* first
ScenarioLines ==
    { Join(<<NL>>, ScenarioClauses), <<NL>> \o Join(<<NL>>, ScenarioClauses) }

\* the clauses one after the other on one line
ScenarioInline == Join(<<SP>>, ScenarioClauses)

ScenarioTexts == ScenarioLines \cup {ScenarioInline}

InitScenario ==
    /\ contract_text \in ScenarioTexts
    /\ has_openai \in BOOLEAN
    /\ api_key \in ApiKeys
    /\ client = None
    /\ provider = ScenarioProvider
    /\ pc = "idle"
    /\ pattern_idx = 0
    /\ clauses = <<>>
    /\ breaks = {}
    /\ sentences = <<>>
    /\ RiskIdle /\ ScoreIdle /\ CallIdle /\ LoopIdle
    /\ NoAnalyzer

SpecScenario == InitScenario /\ [][NextRun]_vars

\* ------------------------------------------------- runs of the script

\* the script run is over or is stopped where it is, and the script is ready
\* to run again from the top: the locals of the run are gone, the session
\* state is kept ("if 'analysis_results' not in st.session_state")
Rerun ==
    /\ pc # "idle"
    /\ pc' = "idle"
    /\ pattern_idx' = 0
    /\ clauses' = <<>>
    /\ breaks' = {}
    /\ sentences' = <<>>
    /\ clause' = NoneStr
    /\ risk_score' = None
    /\ category' = None
    /\ results' = <<>>
    /\ overall_risk' = None
    /\ explanation' = NoneStr
    /\ suggestion' = NoneStr
    /\ error_name' = NoneStr
    /\ requests' = <<>>
    /\ loop_i' = 0
    /\ client' = None
    /\ rule_objects' = <<>>
    /\ analyzer' = 0
    /\ UNCHANGED <<contract_text, analysis_results, has_openai, api_key, provider,
                   other_analyzer, calls, tasks>>

\* providers that do the same with every request
OneWayProviders == {{Response(<<SP, "w10", SP>>)}, {Raise(<<"RateLimitError">>)}}

InitSession == \E P \in OneWayProviders : InitWith(P)

NextSession == NextRun \/ Rerun

SpecSession == InitSession /\ [][NextSession]_vars

\* ------------------------------------------ the loop bodies in any order

\* the loop body of one clause before its first statement
NewTask ==
    [pc |-> "assess", risk_score |-> None, explanation |-> NoneStr,
     suggestion |-> NoneStr, asked |-> <<>>, record |-> None]

\* for i, clause in enumerate(clauses): one loop body per clause, over the
\* one analyzer
Dispatch ==
    /\ pc \in {"returned_structural", "returned_fallback"}
    /\ tasks' = [k \in 1..Len(clauses) |-> NewTask]
    /\ pc' = "tasks"
    /\ UNCHANGED <<segVars, riskVars, scoreVars, confVars, callVars, loop_i, analysis_results>>

\* the rule set of the analyzer after one of its methods has run
AnalyzerAfter(op) == [rule_objects EXCEPT ![analyzer] = RulesAfter(op, @)]

taskFrame ==
    <<pc, segVars, riskVars, scoreVars, has_openai, api_key, client, provider, analyzer,
      other_analyzer, calls, callVars, loop_i, analysis_results>>

\* risk_level = analyzer.assess_clause_risk(clause), in the body of clause k
TaskAssess ==
    /\ pc = "tasks"
    /\ \E k \in 1..Len(tasks) :
        /\ tasks[k].pc = "assess"
        /\ tasks' = [tasks EXCEPT ![k].risk_score = assess_clause_risk(Self, clauses[k]),
                                  ![k].pc = "explain"]
    /\ rule_objects' = AnalyzerAfter("assess_clause_risk")
    /\ UNCHANGED taskFrame

\* the requests of a loop body after the call of op with the provider doing o
AskedAfter(t, op, k, o) ==
    IF Asks(op) THEN Append(t.asked, Request(op, k - 1, o)) ELSE t.asked

\* explanation = analyzer.explain_clause(clause), in the body of clause k
TaskExplain ==
    /\ pc = "tasks"
    /\ \E k \in 1..Len(tasks) :
       \E o \in provider :
        /\ tasks[k].pc = "explain"
        /\ tasks' = [tasks EXCEPT
                        ![k].explanation = Returns(Self, "explain_clause", clauses[k], o),
                        ![k].asked = AskedAfter(tasks[k], "explain_clause", k, o),
                        ![k].pc = "suggest"]
    /\ rule_objects' = AnalyzerAfter("explain_clause")
    /\ UNCHANGED taskFrame

\* suggestion = analyzer.suggest_alternative(clause), in the body of clause k
TaskSuggest ==
    /\ pc = "tasks"
    /\ \E k \in 1..Len(tasks) :
       \E o \in provider :
        /\ tasks[k].pc = "suggest"
        /\ tasks' = [tasks EXCEPT
                        ![k].suggestion = Returns(Self, "suggest_alternative", clauses[k], o),
                        ![k].asked = AskedAfter(tasks[k], "suggest_alternative", k, o),
                        ![k].pc = "append"]
    /\ rule_objects' = AnalyzerAfter("suggest_alternative")
    /\ UNCHANGED taskFrame

\* the record of clause k, with its category
TaskRecord ==
    /\ pc = "tasks"
    /\ \E k \in 1..Len(tasks) :
        /\ tasks[k].pc = "append"
        /\ tasks' = [tasks EXCEPT
                        ![k].record = Result(k, DisplayText(clauses[k]), tasks[k].risk_score,
                                             get_risk_category(Self, clauses[k]),
                                             tasks[k].explanation, tasks[k].suggestion),
                        ![k].pc = "done"]
    /\ rule_objects' = AnalyzerAfter("get_risk_category")
    /\ UNCHANGED taskFrame

\* the records of all loop bodies, by clause index
Gather ==
    /\ pc = "tasks"
    /\ \A k \in 1..Len(tasks) : tasks[k].pc = "done"
    /\ results' = [k \in 1..Len(tasks) |-> tasks[k].record]
    /\ loop_i' = Len(tasks)
    /\ pc' = "store"
    /\ UNCHANGED <<overall_risk, segVars, riskVars, confVars, callVars, analysis_results, tasks>>

RECURSIVE ReportFrom(_, _, _, _, _)
\* the loop of the analysis run clause by clause from clause k on, with the
\* analyzer holding rules and the provider doing answers[n] on the requests
\* about clause n: the records appended to acc
ReportFrom(k, cs, rules, answers, acc) ==
    IF k > Len(cs) THEN acc
    ELSE LET level == assess_clause_risk(rules, cs[k])
             r1 == RulesAfter("assess_clause_risk", rules)
             expl == Returns(r1, "explain_clause", cs[k], answers[k].explain)
             r2 == RulesAfter("explain_clause", r1)
             sugg == Returns(r2, "suggest_alternative", cs[k], answers[k].suggest)
             r3 == RulesAfter("suggest_alternative", r2)
             cat == get_risk_category(r3, cs[k])
             r4 == RulesAfter("get_risk_category", r3)
         IN ReportFrom(k + 1, cs, r4, answers,
                       Append(acc, Result(k, DisplayText(cs[k]), level, cat, expl, sugg)))

\* the report of the loop run clause by clause
SequentialReport(cs, answers) == ReportFrom(1, cs, RuleSet, answers, <<>>)

\* a text of sentences, for the fallback
ShortText == <<"without cause", SP, "w10", ".", SP, "penalty", SP, "w10", ".">>

InitAnyOrder ==
    /\ contract_text \in {Join(<<NL>>, ScenarioClauses), ShortText}
    /\ has_openai = TRUE
    /\ api_key \in {<<>>, <<"sk-key">>}
    /\ client = None
    /\ provider = ScenarioProvider
    /\ pc = "idle"
    /\ pattern_idx = 0
    /\ clauses = <<>>
    /\ breaks = {}
    /\ sentences = <<>>
    /\ RiskIdle /\ ScoreIdle /\ CallIdle /\ LoopIdle
    /\ NoAnalyzer

NextAnyOrder ==
    \/ Analyze
    \/ TryPattern
    \/ Fallback
    \/ GroupLoop
    \/ Dispatch
    \/ TaskAssess
    \/ TaskExplain
    \/ TaskSuggest
    \/ TaskRecord
    \/ Gather
    \/ StoreResults
    \/ Overall

SpecAnyOrder == InitAnyOrder /\ [][NextAnyOrder]_vars

\* ------------------------------------------------- properties: analyzers

Failed(r) == ~Succeeds(r.outcome)

\* the variables other than the log of calls
allButCalls ==
    <<pc, segVars, riskVars, scoreVars, has_openai, api_key, client, provider,
      rule_objects, analyzer, other_analyzer, callVars, loopVars>>

\* the step is a call of assess_clause_risk or get_risk_category
ClassifierStep ==
    /\ Len(calls') = Len(calls) + 1
    /\ calls'[Len(calls')].op \in ClassifierOps

\* C13: any two calls of assess_clause_risk, and any two of
\* get_risk_category, on the same clause text return the same value, on
\* whichever analyzer and whatever was called in between (provider calls that
\* succeeded or failed included), and such a call changes nothing: not the
\* analyzer, not its client, not the requests sent.
C13_Pure ==
    /\ [](\A i, j \in 1..Len(calls) :
            (/\ calls[i].op \in ClassifierOps
             /\ calls[i].op = calls[j].op
             /\ calls[i].arg = calls[j].arg) => calls[i].ret = calls[j].ret)
    /\ [][ClassifierStep => UNCHANGED allButCalls]_vars

\* the same clause assessed before and after an explanation request failed
C13_Witness ==
    /\ Len(calls) = 3
    /\ \A k \in 1..3 : calls[k].who = "this" /\ calls[k].arg = <<"without cause">>
    /\ calls[1].op = "assess_clause_risk"
    /\ calls[2].op = "explain_clause"
    /\ calls[3].op = "assess_clause_risk"
    /\ calls[3].ret = <<"High">>
    /\ Len(requests) = 1
    /\ Failed(requests[1])

\* what a newly built analyzer returns for a classifier call
FreshResult(op, arg) ==
    IF op = "assess_clause_risk" THEN <<assess_clause_risk(RuleSet, arg)>>
    ELSE <<get_risk_category(RuleSet, arg)>>

\* C17: the rule set of an analyzer is what its construction stored and no
\* call of any of the five methods, on this or another analyzer, changes it;
\* two analyses never hold the same analyzer object, and every classifier
\* call returns what a newly built analyzer returns, whatever the other
\* analysis did in between.
C17_RuleSetReadOnly ==
    /\ [](\A id \in 1..Len(rule_objects) : rule_objects[id] = RuleSet)
    /\ [][/\ Len(rule_objects') >= Len(rule_objects)
          /\ \A id \in 1..Len(rule_objects) : rule_objects'[id] = rule_objects[id]]_vars
    /\ []((analyzer # 0 /\ other_analyzer # 0) => analyzer # other_analyzer)
    /\ [](\A k \in 1..Len(calls) :
            calls[k].op \in ClassifierOps =>
                calls[k].ret = FreshResult(calls[k].op, calls[k].arg))

\* the other analysis asks for a category and an explanation between the
\* construction of this analyzer and its call
C17_Witness ==
    /\ analyzer = 1
    /\ other_analyzer = 2
    /\ Len(calls) = 3
    /\ calls[1].who = "other" /\ calls[1].op = "get_risk_category"
    /\ calls[2].who = "other" /\ calls[2].op = "explain_clause"
    /\ calls[3].who = "this" /\ calls[3].op = "get_risk_category"
    /\ calls[3].arg = <<"Penalty", SP, "indemnify">>
    /\ calls[3].ret = <<"Penalty Clauses">>

\* ---------------------------------------- properties: provider and the loop

Segmented == pc \notin {"idle", "patterns", "fallback", "grouping"}

\* what a clause of the scenario says, without its number
ScenarioBody(k) == SubSeq(ScenarioClauses[k], 4, Len(ScenarioClauses[k]))

\* the scenario's expected outcome, for the texts of the set T
ScenarioOutcome(T) ==
    contract_text \in T =>
        /\ Segmented =>
              /\ Len(clauses) = 4
              /\ \A k \in 1..4 : Contains(ScenarioBody(k), clauses[k])
        /\ pc = "done" =>
              /\ LevelsOf(results) = <<"High", "Medium", "Low", "Low">>
              /\ overall_risk = "Medium Risk"

\* C12 as stated, for the numbered clauses in any layout: four clauses in
\* order, classified High, Medium, Low, Low, and the verdict Medium Risk.
C12_AnyLayout == ScenarioOutcome(ScenarioTexts)

\* C12 amended: when every numbered clause after the first starts on a new
\* line, the text is segmented into exactly its 4 clauses in order, they are
\* classified High, Medium, Low, Low and the overall verdict is Medium Risk.
C12_EndToEnd == ScenarioOutcome(ScenarioLines)

\* a finished run on the text whose first clause starts the text
C12_Witness ==
    /\ pc = "done"
    /\ contract_text = Join(<<NL>>, ScenarioClauses)
    /\ Len(results) = 4
    /\ overall_risk = "Medium Risk"
    /\ WeightSum(results) = 7


Verdicts == {"High Risk", "Medium Risk", "Low Risk"}

\* C6, in every state: whatever the provider does with each request, no exception leaves
\* explain_clause or suggest_alternative, the run never stops before its end,
\* every clause that was asked about gets its record, and the finished run
\* holds exactly one record per extracted clause, numbered in order, and an
\* overall verdict.
C6_Safe ==
    /\ pc # "aborted"
    /\ \A k \in 1..Len(requests) :
          requests[k].clause < loop_i =>
              /\ requests[k].clause + 1 <= Len(results)
              /\ results[requests[k].clause + 1]["Clause #"] = requests[k].clause + 1
    /\ pc = "done" =>
          /\ Len(results) = Len(clauses)
          /\ \A n \in 1..Len(results) : results[n]["Clause #"] = n
          /\ overall_risk \in Verdicts

\* C6: for any outcomes of the provider calls the analysis loop never aborts
\* and keeps one record per processed clause (C6_Safe, in every state), and
\* once entered with the extracted clauses it comes to its end.
C6_FailuresNeverAbort == []C6_Safe /\ (Returned ~> (pc = "done"))

\* a finished run of four clauses whose first request failed
C6_Witness ==
    /\ pc = "done"
    /\ Len(clauses) = 4
    /\ Len(results) = 4
    /\ requests # <<>>
    /\ Failed(requests[1])
    /\ requests[1].clause = 0

KeyAbsent == api_key = NoneStr \/ api_key = <<>>

\* the degraded-mode string the claim gives for an exception of type name
\* `name`, with the generic text of the operation
ExpectedMessage(name, generic) ==
    IF Contains(<<"AuthenticationError">>, name) THEN AuthFailed
    ELSE IF Contains(<<"RateLimitError">>, name) THEN RateLimited
    ELSE <<Warn, generic>> \o name

Answered(o, msg, generic) ==
    IF Succeeds(o) THEN msg = Strip(o.content)
    ELSE /\ msg = ExpectedMessage(RaisedName(o), generic)
         /\ msg \notin {AuthFailed, RateLimited} =>
               /\ SubSeq(msg, 3, Len(msg)) = RaisedName(o)
               /\ Cardinality({msg, AuthFailed, RateLimited, NotConfiguredExplain,
                               NotConfiguredSuggest}) = 5

\* C7: without the library or without a key both operations return their
\* not-configured message and no request is sent; otherwise a raised exception
\* gives the authentication message when its type name contains
\* "AuthenticationError", else the rate-limit message when it contains
\* "RateLimitError", else a generic message that ends with the type name; the
\* messages are pairwise different.
C7_DegradedMessages ==
    /\ Cardinality({AuthFailed, RateLimited, NotConfiguredExplain}) = 3
    /\ Cardinality({AuthFailed, RateLimited, NotConfiguredSuggest}) = 3
    /\ pc = "append" =>
          IF ~has_openai \/ KeyAbsent
          THEN /\ explanation = NotConfiguredExplain
               /\ suggestion = NotConfiguredSuggest
               /\ requests = <<>>
          ELSE /\ Len(requests) = 2
               /\ Answered(requests[1].outcome, explanation, "Unable to generate explanation: ")
               /\ Answered(requests[2].outcome, suggestion, "Suggestions unavailable: ")

\* an authentication error of a subclass, then a response without content
C7_Witness ==
    /\ pc = "append"
    /\ Len(requests) = 2
    /\ requests[1].outcome = Raise(<<"Azure", "AuthenticationError">>)
    /\ explanation = AuthFailed
    /\ requests[2].outcome = Response(NoneStr)
    /\ suggestion = <<Warn, "Suggestions unavailable: ", "AttributeError">>

RequestsFor(op, n) ==
    { k \in 1..Len(requests) : requests[k].op = op /\ requests[k].clause = n }

\* C8: for every clause at most one explanation request and at most one
\* suggestion request is sent during a run, whether or not it fails.
C8_NoRetry ==
    \A n \in 0..Len(requests) :
        /\ Cardinality(RequestsFor("explain", n)) <= 1
        /\ Cardinality(RequestsFor("suggest", n)) <= 1

\* a finished run over clauses of all three levels in which requests failed
C8_Witness ==
    /\ pc = "done"
    /\ Len(requests) = 8
    /\ \A k \in 1..8 : Failed(requests[k])
    /\ {results[n]["Risk Level"] : n \in 1..Len(results)} = {"High", "Medium", "Low"}

CategoryNames == { DeclaredOrder[n] : n \in 1..Len(DeclaredOrder) } \cup {"General"}

\* record k belongs to the k-th extracted clause
RecordOf(k) ==
    /\ results[k]["Clause #"] = k
    /\ results[k]["Risk Level"] = assess_clause_risk(RuleSet, clauses[k])
    /\ results[k]["Risk Category"] = get_risk_category(RuleSet, clauses[k])

\* C15: the records are in the order of the extracted clauses: record k has
\* clause index k and the risk level and category of the k-th clause (it has
\* them when it is appended and is not changed afterwards), with a level
\* among High, Medium, Low and a category among the six declared ones and
\* General; when the loop is over there is exactly one record per clause, and
\* that list is the stored report.
C15_ReportInOrder ==
    /\ [](/\ Len(results) <= Len(clauses)
          /\ results # <<>> => RecordOf(Len(results))
          /\ \A k \in 1..Len(results) :
                /\ results[k]["Clause #"] = k
                /\ results[k]["Risk Level"] \in Levels
                /\ results[k]["Risk Category"] \in CategoryNames
          /\ pc \in {"store", "overall", "done"} => Len(results) = Len(clauses)
          /\ pc \in {"overall", "done"} => analysis_results = SomeList(results))
    /\ [][/\ clauses # <<>> => clauses' = clauses
          /\ Len(results') >= Len(results)
          /\ \A k \in 1..Len(results) : results'[k] = results[k]]_vars

\* a finished report of four clauses with three different categories
C15_Witness ==
    /\ pc = "done"
    /\ Len(clauses) = 4
    /\ [k \in 1..4 |-> results[k]["Risk Category"]]
           = <<"Termination", "Confidentiality", "General", "General">>
    /\ analysis_results.list = results

\* ------------------------------------------- properties: any order

\* what the provider did on the request of the body of clause k about op,
\* some outcome when it was not asked
OutcomeOf(k, op) ==
    IF \E n \in 1..Len(tasks[k].asked) : tasks[k].asked[n].op = op
    THEN (CHOOSE r \in { tasks[k].asked[n] : n \in 1..Len(tasks[k].asked) } : r.op = op).outcome
    ELSE CHOOSE o \in provider : TRUE

\* the answers of the provider by clause
AnswersGiven ==
    [k \in 1..Len(tasks) |->
        [explain |-> OutcomeOf(k, "explain_clause"),
         suggest |-> OutcomeOf(k, "suggest_alternative")]]

CompleteReport(l) ==
    /\ Len(l) = Len(clauses)
    /\ \A k \in 1..Len(l) : l[k]["Clause #"] = k

\* C23: a run never stores a partial report: the stored analysis_results
\* changes in one step only, the assignment after the loop, and to the
\* complete list with one record per clause; until then it is the value it
\* had before the run, so that a run stopped at any point leaves it, and the
\* contract text, as they were.
C23_NoPartialWrite ==
    /\ [](pc \in {"overall", "done"}
             => analysis_results = SomeList(results) /\ CompleteReport(results))
    /\ [][/\ contract_text' = contract_text
          /\ analysis_results' # analysis_results
                => /\ pc = "store"
                   /\ analysis_results' = SomeList(results)
                   /\ CompleteReport(results)
          /\ pc' = "idle" => analysis_results' = analysis_results]_vars

\* a second run, two records into its loop, with the report of the first
\* run still stored
C23_Witness ==
    /\ pc = "explain"
    /\ Len(results) = 2
    /\ Len(clauses) = 4
    /\ ~analysis_results.is_none
    /\ Len(analysis_results.list) = 4

\* ------------------------------------------ properties: non-interference

\* the clauses extract_clauses returns for the text, with the sentence
\* boundaries B in the fallback
ExtractedFrom(text, B) ==
    LET ok == { k \in 1..NumPatterns :
                   Accepted(Fragments(k, text), Cleaned(Fragments(k, text))) }
    IN IF ok # {}
       THEN Cleaned(Fragments(CHOOSE k \in ok : \A j \in ok : k <= j, text))
       ELSE GroupSentences(sent_tokenize(text, B))

\* the levels of a list of clauses
LevelsFor(cs) == [k \in 1..Len(cs) |-> assess_clause_risk(RuleSet, cs[k])]

\* C24: what the provider does never influences the risk results: whatever
\* the provider answered or raised, and whether or not it is configured, a
\* finished run holds the clauses, levels, categories and overall verdict that
\* the contract text alone determines (with the sentence boundaries of the
\* tokenizer), and no run is aborted; only explanations and suggestions vary.
C24_ProviderNonInterference ==
    /\ pc # "aborted"
    /\ pc = "done" =>
          LET cs == ExtractedFrom(contract_text, breaks)
          IN /\ clauses = cs
             /\ Len(results) = Len(cs)
             /\ \A k \in 1..Len(cs) :
                   /\ results[k]["Clause #"] = k
                   /\ results[k]["Text"] = DisplayText(cs[k])
                   /\ results[k]["Risk Level"] = LevelsFor(cs)[k]
                   /\ results[k]["Risk Category"] = get_risk_category(RuleSet, cs[k])
             /\ overall_risk = calculate_overall_risk(ResultsWith(LevelsFor(cs)))

\* a finished run of four clauses in which the provider answered two
\* explanation requests and failed on the two others
C24_Witness ==
    /\ pc = "done"
    /\ Len(results) = 4
    /\ overall_risk = "Medium Risk"
    /\ results[1]["Explanation"] = <<"w10">>
    /\ results[2]["Explanation"] = RateLimited
    /\ results[3]["Explanation"] = <<"w10">>
    /\ results[4]["Suggestion"] = RateLimited
    /\ results[1]["Risk Level"] = "High"

====
